---- MODULE Spec2Model ----
(***************************************************************************)
(* Model of the in-memory multi-queue broker: the QueueManager class       *)
(* (src/src/QueueManager.ts) and the two Express handlers that call it     *)
(* (src/unnamed/part_000).  Node runs every handler and every timer        *)
(* callback to completion on one thread, so each handler invocation and    *)
(* each timer callback is one action.                                      *)
(***************************************************************************)
EXTENDS Integers, Sequences, FiniteSets, TLC

\* ------------------------------------------------------------------ bounds
MaxPosts == 3
MaxGets == 3
MaxRequests == 4

\* ------------------------------------------------------------------ inputs
QueueNames == {"a", "b"}

\* A request body as express.json() hands it to the POST handler.
Bodies ==
  { [isString |-> FALSE, hasContent |-> TRUE, content |-> "x", json |-> "{\"content\":\"x\"}"] }

\* req.query.timeout: absent, or the text of the parameter as a list of characters.
undefined == [present |-> FALSE, text |-> <<>>]
Str(chars) == [present |-> TRUE, text |-> chars]
Queries == { undefined, Str(<<"0">>), Str(<<"a">>) }

\* ------------------------------------------------------------------ numbers
\* A JavaScript number as the handlers use it: an integer or NaN.
Num(v) == [nan |-> FALSE, val |-> v]
NaN == [nan |-> TRUE, val |-> 0]

DefaultTimeout == 10000

Digits == {"0", "1", "2", "3", "4", "5", "6", "7", "8", "9"}
DigitVal(ch) ==
  CASE ch = "0" -> 0 [] ch = "1" -> 1 [] ch = "2" -> 2 [] ch = "3" -> 3
    [] ch = "4" -> 4 [] ch = "5" -> 5 [] ch = "6" -> 6 [] ch = "7" -> 7
    [] ch = "8" -> 8 [] ch = "9" -> 9

RECURSIVE ParseDigits(_, _, _)
\* Consumes the longest prefix of decimal digits; seen tells whether one was consumed.
ParseDigits(chars, acc, seen) ==
  IF chars # <<>> /\ Head(chars) \in Digits
    THEN ParseDigits(Tail(chars), acc * 10 + DigitVal(Head(chars)), TRUE)
    ELSE IF seen THEN Num(acc) ELSE NaN

RECURSIVE SkipWhite(_)
SkipWhite(chars) ==
  IF chars # <<>> /\ Head(chars) = " " THEN SkipWhite(Tail(chars)) ELSE chars

\* parseInt(text, 10)
parseInt(chars) ==
  LET s == SkipWhite(chars) IN
    IF s # <<>> /\ Head(s) = "-"
      THEN LET r == ParseDigits(Tail(s), 0, FALSE) IN
             IF r.nan THEN NaN ELSE Num(0 - r.val)
      ELSE IF s # <<>> /\ Head(s) = "+"
        THEN ParseDigits(Tail(s), 0, FALSE)
        ELSE ParseDigits(s, 0, FALSE)

\* req.query.timeout ? parseInt(req.query.timeout, 10) : 10000
QueryTimeout(query) ==
  IF query.present /\ query.text # <<>> THEN parseInt(query.text) ELSE Num(DefaultTimeout)

\* typeof req.body === 'string' ? req.body : req.body.content || JSON.stringify(req.body)
BodyContent(body) ==
  IF body.isString THEN body.content
  ELSE IF body.hasContent /\ body.content # "" THEN body.content ELSE body.json

\* ------------------------------------------------------------------ values
\* The value null passed to resolve on expiry.
Null == [id |-> 0, content |-> "", timestamp |-> 0]
NewMessage(id, content, timestamp) == [id |-> id, content |-> content, timestamp |-> timestamp]

EmptyQueue == [messages |-> <<>>, waitingConsumers |-> <<>>]
NoTimer == [state |-> "none", expiry |-> 0]
NoRequest == [queueName |-> "", timeout |-> Num(0)]
NoResponse == [status |-> 0, body |-> Null]

Gets == 1..MaxGets

VARIABLES
  queues,      \* QueueManager.queues: queue name -> [messages, waitingConsumers]
  timers,      \* the timer each getMessage call armed: state and expiry instant
  now,         \* the clock in milliseconds (Date.now(), timer expiry)
  nextId,      \* the next fresh message id (randomUUID)
  nextGet,     \* the number the next GET request gets
  requests,    \* per GET request: the queue name and timeout it called getMessage with
  resolved,    \* per GET request: the values its promise's resolve was called with, in order
  responses,   \* per GET request: the HTTP response sent
  posted       \* history: the (queue name, message) pairs handed to addMessage, in order

vars == <<queues, timers, now, nextId, nextGet, requests, resolved, responses, posted>>

\* ------------------------------------------------------------------ arrays
\* shift() mistaken for pop(): the newest element is returned.
ShiftResult_pop(arr) == arr[Len(arr)]
\* Array.prototype.shift: the element it returns, and (Shifted) the array it leaves.
ShiftResult(arr) == Head(arr)
\* The element is read but not removed.
Shifted_keep(arr) == arr
Shifted(arr) == Tail(arr)

\* push() mistaken for unshift(): the element is put at the front.
Push_front(arr, x) == <<x>> \o arr
\* Array.prototype.push
Push(arr, x) == Append(arr, x)

\* The comparison never matches: the consumer is never found.
FindIndex_missing(arr, timeoutId) == -1

\* waitingConsumers.findIndex(c => c.timeoutId === timeoutId), 0-based, -1 when absent
FindIndex(arr, timeoutId) ==
  IF \E i \in 1..Len(arr) : arr[i] = timeoutId
    THEN (CHOOSE i \in 1..Len(arr) :
            arr[i] = timeoutId /\ \A j \in 1..(i - 1) : arr[j] # timeoutId) - 1
    ELSE -1

\* splice(index) without a count: everything from index on is removed.
Splice_rest(arr, index) == SubSeq(arr, 1, index)

\* The expired consumer is left in the list.
Splice_keep(arr, index) == arr
\* waitingConsumers.splice(index, 1) for a 0-based index
Splice(arr, index) ==
  [i \in 1..(Len(arr) - 1) |-> IF i <= index THEN arr[i] ELSE arr[i + 1]]

\* ------------------------------------------------------------------ timers
\* The delay Node arms a timer with: anything that is not a number in
\* 1..2^31-1 (NaN, 0, negatives, overlong delays) becomes 1 ms.
TimerDelay(timeout) ==
  IF ~timeout.nan /\ timeout.val >= 1 /\ timeout.val <= 2^30 + (2^30 - 1) THEN timeout.val ELSE 1

\* No timer is armed.
setTimeout_unarmed(tm, c, timeout) == tm
\* setTimeout(callback, timeout) for the timer of GET request c
setTimeout(tm, c, timeout) ==
  [tm EXCEPT ![c] = [state |-> "armed", expiry |-> now + TimerDelay(timeout)]]

\* The timer is left armed.
clearTimeout_noop(tm, c) == tm
\* clearTimeout(consumer.timeoutId): an armed timer is disarmed, any other is left alone
clearTimeout(tm, c) ==
  [tm EXCEPT ![c] = IF @.state = "armed" THEN [@ EXCEPT !.state = "cleared"] ELSE @]

\* ------------------------------------------------------------------ promises
\* A call of the promise's resolve function with value v.
resolve(res, c, v) == [res EXCEPT ![c] = Append(@, v)]

\* A promise settles with the first value resolve was called with; later calls are ignored.
Settled(c) == resolved[c] # <<>>
PromiseValue(c) == Head(resolved[c])

\* The continuation of `await queueManager.getMessage(...)`: runs once, when the promise settles.
Respond(resp, res, c) ==
  IF resp[c].status = 0 /\ res[c] # <<>>
    THEN [resp EXCEPT ![c] = IF Head(res[c]) # Null
                               THEN [status |-> 200, body |-> Head(res[c])]
                               ELSE [status |-> 204, body |-> Null]]
    ELSE resp

\* ------------------------------------------------------------------ QueueManager
\* The has() check is missing: every call installs a fresh empty queue for the name.
getQueue_fresh(qs, queueName) ==
  [n \in (DOMAIN qs) \cup {queueName} |-> IF n = queueName THEN EmptyQueue ELSE qs[n]]

\* Creating a queue rebuilds the whole map with empty queues.
getQueue_reset(qs, queueName) ==
  IF queueName \in DOMAIN qs THEN qs
  ELSE [n \in (DOMAIN qs) \cup {queueName} |-> EmptyQueue]
\* getQueue: the map after the call (the queue is created empty on first use)
getQueue(qs, queueName) ==
  IF queueName \in DOMAIN qs THEN qs ELSE qs @@ (queueName :> EmptyQueue)

\* The message is always put in the backlog; waiting consumers are not looked at.
addMessage_enqueueOnly(queueName, message) ==
  LET qs == getQueue(queues, queueName)
  IN /\ queues' = [qs EXCEPT ![queueName].messages = Push(@, message)]
     /\ UNCHANGED <<timers, resolved>>

\* The consumer's reject callback is called instead of resolve(message).
addMessage_reject(queueName, message) ==
  LET qs == getQueue(queues, queueName)
      queue == qs[queueName]
  IN IF Len(queue.waitingConsumers) > 0
       THEN LET consumer == ShiftResult(queue.waitingConsumers) IN
              /\ queues' = [qs EXCEPT ![queueName].waitingConsumers = Shifted(@)]
              /\ timers' = clearTimeout(timers, consumer)
              /\ resolved' = resolve(resolved, consumer, Null)
       ELSE /\ queues' = [qs EXCEPT ![queueName].messages = Push(@, message)]
            /\ UNCHANGED <<timers, resolved>>

addMessage(queueName, message) ==
  LET qs == getQueue(queues, queueName)
      queue == qs[queueName]
  IN IF Len(queue.waitingConsumers) > 0
       THEN LET consumer == ShiftResult(queue.waitingConsumers) IN
              /\ queues' = [qs EXCEPT ![queueName].waitingConsumers = Shifted(@)]
              /\ timers' = clearTimeout(timers, consumer)
              /\ resolved' = resolve(resolved, consumer, message)
       ELSE /\ queues' = [qs EXCEPT ![queueName].messages = Push(@, message)]
            /\ UNCHANGED <<timers, resolved>>

\* The backlog is not looked at: every call waits.
getMessage_alwaysWait(c, queueName, timeout) ==
  LET qs == getQueue(queues, queueName)
  IN /\ timers' = setTimeout(timers, c, timeout)
     /\ queues' = [qs EXCEPT ![queueName].waitingConsumers = Push(@, c)]
     /\ UNCHANGED resolved

\* A zero timeout answers none at once instead of waiting.
getMessage_failFast(c, queueName, timeout) ==
  LET qs == getQueue(queues, queueName)
      queue == qs[queueName]
  IN IF Len(queue.messages) > 0
       THEN LET message == ShiftResult(queue.messages) IN
              /\ queues' = [qs EXCEPT ![queueName].messages = Shifted(@)]
              /\ resolved' = resolve(resolved, c, message)
              /\ UNCHANGED timers
       ELSE IF timeout = Num(0)
         THEN /\ queues' = qs
              /\ resolved' = resolve(resolved, c, Null)
              /\ UNCHANGED timers
         ELSE /\ timers' = setTimeout(timers, c, timeout)
              /\ queues' = [qs EXCEPT ![queueName].waitingConsumers = Push(@, c)]
              /\ UNCHANGED resolved

\* getMessage for GET request c
getMessage(c, queueName, timeout) ==
  LET qs == getQueue(queues, queueName)
      queue == qs[queueName]
  IN IF Len(queue.messages) > 0
       THEN LET message == ShiftResult(queue.messages) IN
              /\ queues' = [qs EXCEPT ![queueName].messages = Shifted(@)]
              /\ resolved' = resolve(resolved, c, message)
              /\ UNCHANGED timers
       ELSE /\ timers' = setTimeout(timers, c, timeout)
            /\ queues' = [qs EXCEPT ![queueName].waitingConsumers = Push(@, c)]
            /\ UNCHANGED resolved

\* The callback removes the consumer but never resolves its promise.
TimeoutCallback_noResolve(c) ==
  LET queueName == requests[c].queueName
      queue == queues[queueName]
      index == FindIndex(queue.waitingConsumers, c)
  IN /\ queues' = IF index # -1
                    THEN [queues EXCEPT ![queueName].waitingConsumers = Splice(@, index)]
                    ELSE queues
     /\ UNCHANGED resolved

\* The callback given to setTimeout by the getMessage call of GET request c.
TimeoutCallback(c) ==
  LET queueName == requests[c].queueName
      queue == queues[queueName]
      index == FindIndex(queue.waitingConsumers, c)
  IN /\ queues' = IF index # -1
                    THEN [queues EXCEPT ![queueName].waitingConsumers = Splice(@, index)]
                    ELSE queues
     /\ resolved' = resolve(resolved, c, Null)

\* ------------------------------------------------------------------ actions
\* The number of HTTP requests handled so far.
Handled == (nextId - 1) + (nextGet - 1)

Init ==
  /\ queues = <<>>
  /\ timers = [c \in Gets |-> NoTimer]
  /\ now = 0
  /\ nextId = 1
  /\ nextGet = 1
  /\ requests = [c \in Gets |-> NoRequest]
  /\ resolved = [c \in Gets |-> <<>>]
  /\ responses = [c \in Gets |-> NoResponse]
  /\ posted = <<>>

\* app.post('/api/:queueName', ...)
Post(queueName, body) ==
  /\ nextId <= MaxPosts
  /\ Handled < MaxRequests
  /\ LET message == NewMessage(nextId, BodyContent(body), now) IN
       /\ addMessage(queueName, message)
       /\ posted' = Append(posted, [queueName |-> queueName, message |-> message])
  /\ nextId' = nextId + 1
  /\ responses' = [c \in Gets |-> Respond(responses, resolved', c)[c]]
  /\ UNCHANGED <<now, nextGet, requests>>

\* app.get('/api/:queueName', ...)
Get(queueName, query) ==
  /\ nextGet <= MaxGets
  /\ Handled < MaxRequests
  /\ LET timeout == QueryTimeout(query) IN
       /\ requests' = [requests EXCEPT ![nextGet] = [queueName |-> queueName, timeout |-> timeout]]
       /\ getMessage(nextGet, queueName, timeout)
  /\ nextGet' = nextGet + 1
  /\ responses' = Respond(responses, resolved', nextGet)
  /\ UNCHANGED <<now, nextId, posted>>

\* The timer armed for GET request c fires: its callback runs.
TimerFire(c) ==
  /\ timers[c].state = "armed"
  /\ now >= timers[c].expiry
  /\ timers' = [timers EXCEPT ![c].state = "fired"]
  /\ TimeoutCallback(c)
  /\ responses' = Respond(responses, resolved', c)
  /\ UNCHANGED <<now, nextId, nextGet, requests, posted>>

\* Time passes, up to the instant the next thing can happen: the expiry of an armed timer.
Advance ==
  /\ \E c \in Gets : /\ timers[c].state = "armed"
                     /\ timers[c].expiry > now
                     /\ now' = timers[c].expiry
  /\ UNCHANGED <<queues, timers, nextId, nextGet, requests, resolved, responses, posted>>

Next ==
  \/ \E queueName \in QueueNames, body \in Bodies : Post(queueName, body)
  \/ \E queueName \in QueueNames, query \in Queries : Get(queueName, query)
  \/ \E c \in Gets : TimerFire(c)
  \/ Advance

Spec == Init /\ [][Next]_vars

\* The event loop keeps running: time passes and a due timer's callback is run.
FairSpec == Spec /\ WF_vars(Advance) /\ \A c \in Gets : WF_vars(TimerFire(c))

\* ------------------------------------------------------------------ vocabulary of the properties
Started == 1..(nextGet - 1)
QueueOf(c) == requests[c].queueName
Waiters(qs, q) == IF q \in DOMAIN qs THEN qs[q].waitingConsumers ELSE <<>>
Backlog(qs, q) == IF q \in DOMAIN qs THEN qs[q].messages ELSE <<>>
Range(seq) == {seq[i] : i \in 1..Len(seq)}

\* c went down the waiting branch of getMessage (it armed a timer).
Registered(c) == timers[c].state # "none"
\* c was answered from the backlog, without waiting.
Immediate(c) == c \in Started /\ timers[c].state = "none"
Pending(c) == c \in Started /\ resolved[c] = <<>>
GotMessage(c) == resolved[c] # <<>> /\ Head(resolved[c]) # Null
GotNone(c) == resolved[c] # <<>> /\ Head(resolved[c]) = Null

\* The messages submitted to q, in submission order.
PostedTo(q) ==
  LET sel == SelectSeq(posted, LAMBDA p : p.queueName = q)
  IN [i \in 1..Len(sel) |-> sel[i].message]
DeliveredMsg(m) == \E c \in Gets : resolved[c] # <<>> /\ Head(resolved[c]) = m

\* The kind of step taken.
IsPost == nextId' = nextId + 1
PostQueue == posted'[Len(posted')].queueName
PostMessage == posted'[Len(posted')].message
IsGet == nextGet' = nextGet + 1
IsFire(c) == timers[c].state = "armed" /\ timers'[c].state = "fired"

\* ------------------------------------------------------------------ C1
\* How many Receives on c's queue were issued up to and including c.
RankOnQueue(c) == Cardinality({d \in Started : d <= c /\ QueueOf(d) = QueueOf(c)})
NoWaiterBefore(c) == \A d \in Started : (d < c /\ QueueOf(d) = QueueOf(c)) => ~Registered(d)

\* C1: on any queue, as long as no Receive before it had to wait, the k-th
\* Receive that finds a backlog returns the k-th message submitted to that
\* queue; a Receive that found the backlog empty and whose deadline fired has
\* resolved with none (204), and not before its deadline.
C1_FifoThenNone ==
  \A c \in Started :
    /\ (Immediate(c) /\ NoWaiterBefore(c)) =>
         /\ RankOnQueue(c) <= Len(PostedTo(QueueOf(c)))
         /\ resolved[c] = <<PostedTo(QueueOf(c))[RankOnQueue(c)]>>
         /\ responses[c] = [status |-> 200, body |-> PostedTo(QueueOf(c))[RankOnQueue(c)]]
    /\ timers[c].state = "fired" =>
         /\ resolved[c] = <<Null>>
         /\ responses[c].status = 204
         /\ now >= timers[c].expiry

\* Two messages were submitted to one queue and two Receives returned them in order.
C1_Witness ==
  \E c, d \in Started :
    /\ c < d /\ QueueOf(c) = QueueOf(d)
    /\ Immediate(c) /\ Immediate(d) /\ NoWaiterBefore(d)
    /\ Len(PostedTo(QueueOf(c))) >= 2
    /\ resolved[c] = <<PostedTo(QueueOf(c))[1]>>
    /\ resolved[d] = <<PostedTo(QueueOf(c))[2]>>

\* ------------------------------------------------------------------ C2
\* C2: a Submit to a queue with N >= 1 blocked consumers resolves exactly the
\* one that began waiting earliest with the submitted message and leaves the
\* other N-1 blocked in their original order; and of two consumers that
\* waited on one queue, the later is never handed a message while the earlier
\* is still blocked, and is handed a later message than the earlier was.
C2_Step ==
  /\ (IsPost /\ Waiters(queues, PostQueue) # <<>>) =>
       LET ws == Waiters(queues, PostQueue)
           first == ws[1]
       IN /\ \A i \in 2..Len(ws) : first < ws[i]
          /\ resolved[first] = <<>>
          /\ resolved'[first] = <<PostMessage>>
          /\ Waiters(queues', PostQueue) = Tail(ws)
          /\ \A d \in Gets \ {first} : resolved'[d] = resolved[d] /\ timers'[d] = timers[d]
  /\ \A c, d \in Gets :
       (c < d /\ requests'[c].queueName = requests'[d].queueName
          /\ timers'[c].state = "cleared" /\ timers'[d].state = "cleared") =>
         /\ resolved'[c] # <<>> /\ resolved'[d] # <<>>
         /\ Head(resolved'[c]).id < Head(resolved'[d]).id
  /\ \A c, d \in Gets :
       (c < d /\ requests'[c].queueName = requests'[d].queueName
          /\ timers'[c].state = "armed" /\ timers'[d].state # "none") =>
         /\ timers'[d].state # "cleared"
         /\ \A i \in 1..Len(resolved'[d]) : resolved'[d][i] = Null
C2_EarliestWaiterServed == [][C2_Step]_vars

\* Three consumers waited on one queue; one Submit resolved the first and the other two still wait, in order.
C2_Witness ==
  \E q \in DOMAIN queues :
    /\ Waiters(queues, q) = <<2, 3>>
    /\ QueueOf(1) = q
    /\ timers[1].state = "cleared"
    /\ GotMessage(1)
    /\ Pending(2) /\ Pending(3)

\* ------------------------------------------------------------------ C3
\* C3: resolve is called at most once for every Receive, so no waiter is both
\* delivered a message and timed out, and none is delivered two messages.
C3_ResolvedAtMostOnce ==
  \A c \in Gets :
    /\ Len(resolved[c]) <= 1
    /\ ~(timers[c].state = "fired" /\ \E i \in 1..Len(resolved[c]) : resolved[c][i] # Null)

\* A Submit won the race: the waiter's deadline had already passed when the message was handed over.
C3_Witness ==
  \E c \in Started :
    /\ timers[c].state = "cleared"
    /\ now >= timers[c].expiry
    /\ GotMessage(c)

\* ------------------------------------------------------------------ C4
\* The number of places message m is held in: positions in any backlog plus Receives it was given to.
Places(m) ==
  LET held == UNION {{<<q, i>> : i \in {k \in 1..Len(queues[q].messages) : queues[q].messages[k] = m}}
                       : q \in DOMAIN queues}
      given == UNION {{<<c, i>> : i \in {k \in 1..Len(resolved[c]) : resolved[c][k] = m}}
                        : c \in Gets}
  IN Cardinality(held) + Cardinality(given)

\* C4: every submitted message is in exactly one place: once in the backlog
\* of the queue it was submitted to, or delivered to exactly one Receive (on
\* that queue).
C4_MessageInExactlyOnePlace ==
  \A i \in 1..Len(posted) :
    LET m == posted[i].message
        q == posted[i].queueName
    IN /\ Places(m) = 1
       /\ \/ m \in Range(Backlog(queues, q))
          \/ \E c \in Started : QueueOf(c) = q /\ resolved[c] = <<m>>

\* Three messages were submitted: one was taken from a backlog by a Receive and one still waits in a backlog.
C4_Witness ==
  /\ Len(posted) = 3
  /\ \E q \in DOMAIN queues : Len(queues[q].messages) = 1
  /\ \E c \in Started : Immediate(c) /\ GotMessage(c)

\* ------------------------------------------------------------------ C5
InSomeWaiterList(c) == \E q \in DOMAIN queues : c \in Range(queues[q].waitingConsumers)

\* C5: once a waiter's deadline has fired it has resolved with none (204), it
\* is in no waiter list, and no later Submit is delivered to it: a Submit
\* goes to the oldest waiter still blocked on the queue, or to the backlog
\* when none is.
C5_Step ==
  /\ \A c \in Gets :
       timers'[c].state = "fired" =>
         /\ resolved'[c] = <<Null>>
         /\ responses'[c].status = 204
         /\ \A q \in DOMAIN queues' : c \notin Range(queues'[q].waitingConsumers)
  /\ IsPost =>
       LET blocked == {c \in Started : QueueOf(c) = PostQueue /\ timers[c].state = "armed"}
       IN IF blocked # {}
            THEN \E c \in blocked :
                   /\ \A d \in blocked : c <= d
                   /\ resolved'[c] = <<PostMessage>>
                   /\ Backlog(queues', PostQueue) = Backlog(queues, PostQueue)
            ELSE /\ Backlog(queues', PostQueue) = Append(Backlog(queues, PostQueue), PostMessage)
                 /\ resolved' = resolved
C5_ExpiredWaiterGone == [][C5_Step]_vars

\* A waiter expired, and a message submitted to its queue afterwards sits in the backlog.
C5_Witness ==
  \E c \in Started :
    /\ timers[c].state = "fired"
    /\ GotNone(c)
    /\ Backlog(queues, QueueOf(c)) # <<>>

\* ------------------------------------------------------------------ C6
\* The queue a step operates on.
StepQueue ==
  IF IsPost THEN PostQueue
  ELSE IF IsGet THEN requests'[nextGet].queueName
  ELSE IF \E c \in Gets : IsFire(c) THEN QueueOf(CHOOSE c \in Gets : IsFire(c))
  ELSE ""

\* C6: a Submit, a Receive or a timeout on one queue leaves every other
\* queue as it was: its existence, its backlog, its waiter list, and the
\* timers and resolutions of the Receives issued on it.
C6_Step ==
  \A b \in QueueNames \ {StepQueue} :
    /\ (b \in DOMAIN queues') = (b \in DOMAIN queues)
    /\ b \in DOMAIN queues => queues'[b] = queues[b]
    /\ \A c \in Started : QueueOf(c) = b =>
         /\ resolved'[c] = resolved[c]
         /\ timers'[c] = timers[c]
         /\ responses'[c] = responses[c]
C6_QueuesIsolated == [][C6_Step]_vars

\* A consumer is blocked on one queue while a message submitted to the other queue sits in its backlog.
C6_Witness ==
  \E c \in Started :
    /\ Pending(c)
    /\ c \in Range(Waiters(queues, QueueOf(c)))
    /\ \E b \in QueueNames \ {QueueOf(c)} : Backlog(queues, b) # <<>>

\* ------------------------------------------------------------------ C7
Answered(c) ==
  /\ Len(resolved[c]) >= 1
  /\ \/ responses[c].status = 200 /\ responses[c].body = Head(resolved[c]) /\ GotMessage(c)
     \/ responses[c].status = 204 /\ GotNone(c)

\* C7: every Receive is eventually answered, with a message (200) or with
\* none (204): one that finds a backlog is answered in the step that issues
\* it, and one that waits is eventually handed a message or timed out.
C7_EveryReceiveResolves ==
  /\ [](\A c \in Gets : Immediate(c) => Answered(c))
  /\ \A c \in Gets : (c \in Started) ~> Answered(c)

\* One Receive was answered from the backlog at once and another waited and timed out.
C7_Witness ==
  \E c, d \in Started :
    /\ Immediate(c) /\ Answered(c) /\ responses[c].status = 200
    /\ timers[d].state = "fired" /\ Answered(d) /\ responses[d].status = 204

\* ------------------------------------------------------------------ C8
\* C8: within one queue messages are consumed in submission order: a message
\* is delivered to a consumer only if every message submitted to that queue
\* before it has been delivered.
C8_ConsumedInSubmissionOrder ==
  \A i, j \in 1..Len(posted) :
    (i < j /\ posted[i].queueName = posted[j].queueName /\ DeliveredMsg(posted[j].message))
      => DeliveredMsg(posted[i].message)

\* Two messages of one queue were consumed: the first handed to a blocked consumer, the second taken from the backlog.
C8_Witness ==
  \E i, j \in 1..Len(posted) : \E c, d \in Started :
    /\ i < j /\ posted[i].queueName = posted[j].queueName
    /\ timers[c].state = "cleared" /\ resolved[c] = <<posted[i].message>>
    /\ Immediate(d) /\ resolved[d] = <<posted[j].message>>

\* ------------------------------------------------------------------ C9
\* C9: the Submit that finds a blocked waiter resolves it with the submitted
\* message and answers its request (200) in the same step and cancels its
\* timer; a cancelled timer stays cancelled (it never fires) and the request
\* keeps the answer it got.
C9_Step ==
  /\ (IsPost /\ Waiters(queues, PostQueue) # <<>>) =>
       LET first == Waiters(queues, PostQueue)[1]
       IN /\ timers[first].state = "armed"
          /\ timers'[first].state = "cleared"
          /\ resolved'[first] = <<PostMessage>>
          /\ responses'[first] = [status |-> 200, body |-> PostMessage]
  /\ \A c \in Gets :
       timers[c].state = "cleared" =>
         /\ timers'[c] = timers[c]
         /\ resolved'[c] = resolved[c]
         /\ responses'[c] = responses[c]
C9_HandoffCancelsTimer == [][C9_Step]_vars

\* A waiter was handed a message before its deadline, and time has since passed that deadline.
C9_Witness ==
  \E c \in Started : \E i \in 1..Len(posted) :
    /\ timers[c].state = "cleared"
    /\ posted[i].message.timestamp < timers[c].expiry
    /\ resolved[c] = <<posted[i].message>>
    /\ responses[c].status = 200
    /\ now > timers[c].expiry

\* ------------------------------------------------------------------ C10
ZeroTimeoutWaiter(c) == c \in Started /\ requests[c].timeout = Num(0) /\ Registered(c)

C10_Step ==
  /\ (IsGet /\ requests'[nextGet].timeout = Num(0)
        /\ Backlog(queues, requests'[nextGet].queueName) = <<>>) =>
       /\ timers'[nextGet] = [state |-> "armed", expiry |-> now + 1]
       /\ resolved'[nextGet] = <<>>
       /\ responses'[nextGet].status = 0
       /\ Waiters(queues', requests'[nextGet].queueName)
            = Append(Waiters(queues, requests'[nextGet].queueName), nextGet)
  /\ \A c \in Gets :
       (requests'[c].timeout = Num(0) /\ timers'[c].state # "none") =>
         \/ /\ timers'[c].state = "armed"
            /\ resolved'[c] = <<>>
            /\ c \in Range(Waiters(queues', requests'[c].queueName))
         \/ /\ timers'[c].state = "fired"
            /\ resolved'[c] = <<Null>>
            /\ responses'[c].status = 204
            /\ now' >= timers'[c].expiry
         \/ /\ timers'[c].state = "cleared"
            /\ \E i \in 1..Len(posted') :
                 /\ posted'[i].queueName = requests'[c].queueName
                 /\ resolved'[c] = <<posted'[i].message>>
                 /\ responses'[c] = [status |-> 200, body |-> posted'[i].message]
C11_BacklogOrWaitersEmpty ==
  \A q \in DOMAIN queues :
    queues[q].messages = <<>> \/ queues[q].waitingConsumers = <<>>

\* A queue that once had a blocked consumer (served by a handoff) now holds a
\* backlog, while a consumer is blocked on the other queue.
C11_Witness ==
  \E q, b \in DOMAIN queues :
    /\ q # b
    /\ queues[q].messages # <<>>
    /\ \E c \in Started : QueueOf(c) = q /\ timers[c].state = "cleared"
    /\ queues[b].waitingConsumers # <<>>

\* ------------------------------------------------------------------ C12
\* C12: removal from the waiter list arbitrates the timeout path: a step in
\* which a waiter's deadline fires finds the waiter in its queue's list,
\* removes it and calls resolve(null) once; and a waiter that a Submit has
\* removed from the list gets no resolve call from the timeout path (its
\* timer is not armed any more and its resolve log never changes).
C12_Step ==
  /\ \A c \in Gets :
       IsFire(c) =>
         /\ c \in Range(Waiters(queues, QueueOf(c)))
         /\ c \notin Range(Waiters(queues', QueueOf(c)))
         /\ resolved[c] = <<>>
         /\ resolved'[c] = <<Null>>
  /\ \A c \in Gets :
       (resolved'[c] # resolved[c] /\ resolved'[c][Len(resolved'[c])] = Null) =>
         /\ c \in Range(Waiters(queues, QueueOf(c)))
         /\ c \notin Range(Waiters(queues', QueueOf(c)))
  /\ \A c \in Gets :
       (Registered(c) /\ c \notin Range(Waiters(queues, QueueOf(c)))) =>
         /\ timers[c].state # "armed"
         /\ resolved'[c] = resolved[c]
C12_RemovalArbitrates == [][C12_Step]_vars

\* A Submit removed and served a waiter, and time has reached that waiter's deadline.
C12_Witness ==
  \E c \in Started :
    /\ timers[c].state = "cleared"
    /\ c \notin Range(Waiters(queues, QueueOf(c)))
    /\ now >= timers[c].expiry
    /\ Len(resolved[c]) = 1
    /\ \E d \in Started : timers[d].state = "fired"

\* ------------------------------------------------------------------ C13
\* C13: a blocked Receive resolves with none only in the step in which its
\* own timer fires, and that step is not before the timer's expiry, which is
\* not before the requested timeout has elapsed since the call; no Submit,
\* Receive or other waiter's timeout resolves it with none.
C13_Step ==
  /\ \A c \in Gets :
       (resolved'[c] # resolved[c] /\ Null \in Range(resolved'[c])) =>
         /\ IsFire(c)
         /\ now >= timers[c].expiry
         /\ ~IsPost /\ ~IsGet
         /\ \A d \in Gets \ {c} : ~IsFire(d)
  /\ (IsGet /\ timers'[nextGet].state = "armed" /\ ~requests'[nextGet].timeout.nan) =>
       timers'[nextGet].expiry >= now + requests'[nextGet].timeout.val
C14_Step ==
  (IsGet /\ Backlog(queues, requests'[nextGet].queueName) # <<>>) =>
    LET q == requests'[nextGet].queueName
        backlog == queues[q].messages
    IN /\ resolved'[nextGet] = <<backlog[1]>>
       /\ responses'[nextGet] = [status |-> 200, body |-> backlog[1]]
       /\ queues'[q].messages = Tail(backlog)
       /\ queues'[q].waitingConsumers = queues[q].waitingConsumers
       /\ timers' = timers
       /\ \A d \in Gets \ {nextGet} : resolved'[d] = resolved[d]
C14_BacklogReceive == [][C14_Step]_vars

\* A Receive took the oldest of three backlog messages; the other two remain, in submission order.
C14_Witness ==
  \E c \in Started :
    LET sent == PostedTo(QueueOf(c)) IN
      /\ Immediate(c)
      /\ Len(sent) = 3
      /\ resolved[c] = <<sent[1]>>
      /\ Backlog(queues, QueueOf(c)) = <<sent[2], sent[3]>>

\* ------------------------------------------------------------------ C15
\* C15: a Submit that finds a waiter delivers the message to a waiter and
\* leaves the backlog as it was; a Submit that finds none appends the
\* message to the tail of the backlog and resolves no Receive.
C15_Step ==
  IsPost =>
    IF Waiters(queues, PostQueue) # <<>>
      THEN /\ \E c \in Range(Waiters(queues, PostQueue)) :
                resolved[c] = <<>> /\ resolved'[c] = <<PostMessage>>
           /\ Backlog(queues', PostQueue) = Backlog(queues, PostQueue)
           /\ \A q \in DOMAIN queues' : PostMessage \notin Range(queues'[q].messages)
      ELSE /\ Backlog(queues', PostQueue) = Append(Backlog(queues, PostQueue), PostMessage)
           /\ resolved' = resolved
           /\ responses' = responses
           /\ timers' = timers
C15_DeliverOrEnqueue == [][C15_Step]_vars

\* Both branches were taken on one queue: the first message was handed to a
\* waiter, the next two were appended to the backlog in order.
C15_Witness ==
  \E q \in DOMAIN queues :
    LET sent == PostedTo(q) IN
      /\ Len(sent) = 3
      /\ \E c \in Started : QueueOf(c) = q /\ timers[c].state = "cleared" /\ resolved[c] = <<sent[1]>>
      /\ queues[q].messages = <<sent[2], sent[3]>>

\* ------------------------------------------------------------------ C16
\* The queue names the operations so far have named.
NamesUsed ==
  {posted[i].queueName : i \in 1..Len(posted)} \cup {requests[c].queueName : c \in Started}

\* C16: the registry holds exactly one queue for every name an operation has
\* named; a queue comes into existence in the first Submit or Receive that
\* names it, as an empty queue that this operation acts on; and an existing
\* queue is never removed or reset: a step changes it by at most one entry
\* at one end of its backlog or of its waiter list.
C16_Step ==
  /\ DOMAIN queues = NamesUsed
  /\ DOMAIN queues' = NamesUsed'
  /\ DOMAIN queues \subseteq DOMAIN queues'
  /\ \A q \in (DOMAIN queues') \ (DOMAIN queues) :
       /\ (IsPost /\ PostQueue = q) \/ (IsGet /\ requests'[nextGet].queueName = q)
       /\ IsPost => queues'[q] = [messages |-> <<PostMessage>>, waitingConsumers |-> <<>>]
       /\ IsGet => queues'[q] = [messages |-> <<>>, waitingConsumers |-> <<nextGet>>]
  /\ \A q \in DOMAIN queues :
       /\ \/ queues'[q].messages = queues[q].messages
          \/ IsPost /\ queues'[q].messages = Append(queues[q].messages, PostMessage)
          \/ IsGet /\ queues[q].messages # <<>> /\ queues'[q].messages = Tail(queues[q].messages)
       /\ \/ queues'[q].waitingConsumers = queues[q].waitingConsumers
          \/ IsGet /\ queues'[q].waitingConsumers = Append(queues[q].waitingConsumers, nextGet)
          \/ IsPost /\ queues[q].waitingConsumers # <<>>
               /\ queues'[q].waitingConsumers = Tail(queues[q].waitingConsumers)
          \/ \E c \in Gets : /\ IsFire(c)
                             /\ queues'[q].waitingConsumers
                                  = SelectSeq(queues[q].waitingConsumers, LAMBDA w : w # c)
C16_OneQueuePerName == [][C16_Step]_vars

\* Both queues exist; one has accumulated a backlog over two Submits and the other holds a waiter.
C16_Witness ==
  \E q, b \in DOMAIN queues :
    /\ q # b
    /\ Len(queues[q].messages) = 2
    /\ Len(queues[b].waitingConsumers) = 1

\* ------------------------------------------------------------------ C17
\* The timeout the GET handler is to hand to getMessage for a query value:
\* the parsed number, or the default when the parameter is absent or not numeric.
NormalizedTimeout(query) ==
  IF query.present /\ query.text # <<>> /\ ~parseInt(query.text).nan
    THEN parseInt(query.text)
    ELSE Num(DefaultTimeout)

\* C17: every GET calls getMessage with a normalized timeout: 10000 when the
\* timeout parameter is absent and 10000 when it is present but not numeric,
\* never an invalid duration.
C17_Original ==
  \A c \in Started :
    /\ requests[c].timeout \in {NormalizedTimeout(query) : query \in Queries}
    /\ ~requests[c].timeout.nan

\* ------------------------------------------------------------------ C18
\* C18: when the deadline of a waiter that is not the oldest of its queue
\* fires, exactly that waiter leaves the queue's waiter list; the other
\* waiters keep their order, their armed timers and their pending promises,
\* and no backlog of any queue changes.
C18_Step ==
  \A c \in Gets :
    (IsFire(c) /\ Waiters(queues, QueueOf(c)) # <<>> /\ Waiters(queues, QueueOf(c))[1] # c) =>
      LET q == QueueOf(c)
          ws == queues[q].waitingConsumers
      IN /\ c \in Range(ws)
         /\ queues'[q].waitingConsumers = SelectSeq(ws, LAMBDA w : w # c)
         /\ Len(queues'[q].waitingConsumers) = Len(ws) - 1
         /\ \A d \in Gets \ {c} :
              /\ timers'[d] = timers[d]
              /\ resolved'[d] = resolved[d]
              /\ responses'[d] = responses[d]
         /\ DOMAIN queues' = DOMAIN queues
         /\ \A b \in DOMAIN queues :
              /\ queues'[b].messages = queues[b].messages
              /\ b # q => queues'[b] = queues[b]
C18_OnlyExpiredWaiterRemoved == [][C18_Step]_vars

\* Of three waiters of one queue the middle one timed out; the first and the third still wait, in order.
C18_Witness ==
  \E q \in DOMAIN queues :
    /\ queues[q].waitingConsumers = <<1, 3>>
    /\ QueueOf(2) = q
    /\ timers[2].state = "fired" /\ GotNone(2)
    /\ Pending(1) /\ Pending(3)
    /\ timers[1].state = "armed" /\ timers[3].state = "armed"

\* ------------------------------------------------------------------ C19
\* C19: the entries of a queue's waiter list are exactly the unresolved
\* Receives issued on that queue, each once and in the order they were
\* issued; each has an armed timer; and a Receive whose timer was cancelled
\* or has fired, or that was answered from the backlog, is in no list.
C19_WaitersAreUnresolved ==
  /\ \A q \in DOMAIN queues :
       LET ws == queues[q].waitingConsumers IN
         /\ Range(ws) = {c \in Started : QueueOf(c) = q /\ resolved[c] = <<>>}
         /\ \A i, j \in 1..Len(ws) : i < j => ws[i] < ws[j]
         /\ \A i \in 1..Len(ws) : timers[ws[i]].state = "armed"
  /\ \A c \in Gets :
       timers[c].state = "armed" <=> (\E q \in DOMAIN queues : c \in Range(queues[q].waitingConsumers))
  /\ \A c \in Gets :
       resolved[c] # <<>> => \A q \in DOMAIN queues : c \notin Range(queues[q].waitingConsumers)

\* Three Receives on one queue: one was handed a message, one timed out and the third alone is the waiter list.
C19_Witness ==
  \E q \in DOMAIN queues :
    /\ Len(queues[q].waitingConsumers) = 1
    /\ \E c \in Started : QueueOf(c) = q /\ timers[c].state = "cleared" /\ GotMessage(c)
    /\ \E d \in Started : QueueOf(d) = q /\ timers[d].state = "fired" /\ GotNone(d)
====
